---- MODULE Spec2Model ----
(***************************************************************************)
(* BrainDriveChat plugin lifecycle manager (src/lifecycle_manager.py).     *)
(*                                                                         *)
(* The database is the pair of tables plugin / module.  Every call         *)
(* (install_for_user, uninstall_for_user, _check_existing_plugin) is a     *)
(* coroutine whose position is its pc; one step is the code between two    *)
(* awaits on the database handle.  A statement, commit or rollback may     *)
(* raise: every such await has a succeeding and a raising outcome.         *)
(***************************************************************************)
EXTENDS Integers, Sequences, FiniteSets, TLC

VARIABLES
    plugin_table,    \* committed rows of table plugin
    module_table,    \* committed rows of table module
    next_plugin_id,  \* the identifier the next INSERT INTO plugin returns
    next_module_id,  \* the identifier the next INSERT INTO module returns
    active_users,    \* BaseLifecycleManager.active_users of the long-lived manager
    tasks,           \* the calls: position, locals, open transaction, result
    raced,           \* users for whom a call passed its guard while another call was in flight
    plugin_dir,      \* the installation target directory
    validation,      \* what _validate_installation_impl returned last
    health,          \* what _get_plugin_health_impl returned last
    source_tree,     \* the entries below Path(__file__).parent
    target_tree,     \* the entries below target_dir
    copy             \* the call of _copy_plugin_files_impl: position, locals, result

vars == << plugin_table, module_table, next_plugin_id, next_module_id,
           active_users, tasks, raced, plugin_dir, validation, health,
           source_tree, target_tree, copy >>

dbvars == << plugin_table, module_table, next_plugin_id, next_module_id,
             active_users, tasks, raced >>

fsvars == << plugin_dir, validation, health, source_tree, target_tree, copy >>

copyvars == << source_tree, target_tree, copy >>

(***************************************************************************)
(* Bounds and the sets inputs are drawn from.                              *)
(***************************************************************************)
MaxId == 3

MaxSize == 2

Users == {"u1", "u2"}

Tasks == {"t1", "t2"}

SeqTask == "t1"

\* the user the interleaved calls are for
RaceUsers == {"u1"}

(***************************************************************************)
(* Program constants.                                                      *)
(***************************************************************************)
plugin_slug == "BrainDriveChat"

module_data ==
    << [name |-> "BrainDriveChat", display_name |-> "AI Chat Interface"] >>

NoId == 0

NoError == ""

AlreadyInstalledError == "Plugin already installed for user"

NotInstalledError == "Plugin not installed for user"

NotFoundError == "Plugin not found for user"

\* str(e) of the exception a failed await raises, one per statement
DbError(stmt) == "db error: " \o stmt

\* rows another plugin of the host owns in the same two tables
OtherPluginRows == {[id |-> 0, user_id |-> "u2", plugin_slug |-> "OtherPlugin"]}

OtherModuleRows == {[id |-> 0, plugin_id |-> 0, name |-> "OtherModule"]}

(***************************************************************************)
(* Results.  A Python dict with absent keys is a record with the absent    *)
(* keys at their defaults.                                                 *)
(***************************************************************************)
NoResult ==
    [success |-> FALSE, exists |-> FALSE, error |-> NoError, plugin_id |-> NoId,
     modules_created |-> << >>, deleted_modules |-> << >>]

Failure(msg) == [NoResult EXCEPT !.error = msg]

\* return {'success': False, 'error': 'Plugin already installed for user'}
AlreadyInstalledResult == Failure(AlreadyInstalledError)

NotInstalledResult_Success == [NoResult EXCEPT !.success = TRUE]

\* return {'success': False, 'error': 'Plugin not installed for user'}
NotInstalledResult == Failure(NotInstalledError)

\* return {'success': False, 'error': 'Plugin not found for user'}
NotFoundResult == Failure(NotFoundError)

EmptyTx ==
    [ins_plugins |-> {}, ins_modules |-> {}, del_plugins |-> {}, del_modules |-> {}]

NoSnapshot == [plugins |-> {}, modules |-> {}, active |-> FALSE]

\* what a call remembers of the call before it: a successful install or uninstall
\* for the same user
NoCall == [op |-> "none", plugin_id |-> NoId, modules_created |-> << >>, fresh |-> FALSE]

IdleTask ==
    [pc |-> "idle", op |-> "none", user |-> "none", own |-> FALSE, mgr_active |-> {},
     plugin_id |-> NoId, idx |-> 0, modules_created |-> << >>,
     modules_to_delete |-> << >>, tx |-> EmptyTx, err |-> NoError,
     faulted |-> FALSE, steps |-> << >>, result |-> NoResult,
     pre |-> NoSnapshot, pred |-> NoCall, raised |-> {}, rollback_awaited |-> FALSE]

Ready(t) == tasks[t].pc \in {"idle", "done"}

\* what the call's session reads: committed rows and its own uncommitted changes
ViewPlugins(t) ==
    {r \in plugin_table \cup tasks[t].tx.ins_plugins : r.id \notin tasks[t].tx.del_plugins}

ViewModules(t) ==
    {r \in module_table \cup tasks[t].tx.ins_modules : r.id \notin tasks[t].tx.del_modules}

\* the orders in which a SELECT without ORDER BY may return a set of rows
RowOrders(S) ==
    {s \in [1..Cardinality(S) -> S] : \A i, j \in 1..Cardinality(S) : s[i] = s[j] => i = j}

Snapshot(u, active) ==
    [plugins |-> plugin_table, modules |-> module_table, active |-> (u \in active)]

\* the call that ran before a call for user u in slot t, when it was a successful
\* install or uninstall for u
Before(t, u) ==
    IF /\ tasks[t].pc = "done" /\ tasks[t].op \in {"install", "uninstall"}
       /\ tasks[t].user = u /\ tasks[t].result.success
    THEN [op |-> tasks[t].op, plugin_id |-> tasks[t].result.plugin_id,
          modules_created |-> tasks[t].result.modules_created,
          fresh |-> ({r \in tasks[t].pre.plugins :
                       r.user_id = u /\ r.plugin_slug = plugin_slug} = {})]
    ELSE NoCall

(***************************************************************************)
(* The decisions and queries of the code, one operator each.               *)
(***************************************************************************)
AlreadyInstalled_Never(active, u) == FALSE

\* install_for_user: if user_id in self.active_users
AlreadyInstalled(active, u) == u \in active

\* uninstall_for_user: if user_id not in self.active_users
NotInstalled(active, u) == u \notin active

ActiveAfterInstall_Forgotten(active, u, res) == active

\* install_for_user: if result['success']: self.active_users.add(user_id)
ActiveAfterInstall(active, u, res) == IF res.success THEN active \cup {u} ELSE active

ActiveAfterUninstall_Always(active, u, res) == active \ {u}

\* uninstall_for_user: if result['success']: self.active_users.discard(user_id)
ActiveAfterUninstall(active, u, res) == IF res.success THEN active \ {u} ELSE active

SelectPlugin_AnyUser(rows, u) == {r \in rows : r.plugin_slug = plugin_slug}

\* SELECT ... FROM plugin WHERE user_id = :user_id AND plugin_slug = :plugin_slug
SelectPlugin(rows, u) == {r \in rows : r.user_id = u /\ r.plugin_slug = plugin_slug}

SelectModules_AnyPlugin(rows, pid) == rows

\* SELECT id, name FROM module WHERE plugin_id = :plugin_id
SelectModules(rows, pid) == {r \in rows : r.plugin_id = pid}

DeleteModulesWhere_AnyPlugin(rows, pid) == rows

DeleteModulesWhere_None(rows, pid) == {}

\* DELETE FROM module WHERE plugin_id = :plugin_id
DeleteModulesWhere(rows, pid) == {r \in rows : r.plugin_id = pid}

DeletePluginWhere_Unkeyed(rows, pid, u) == rows

\* DELETE FROM plugin WHERE id = :plugin_id AND user_id = :user_id
DeletePluginWhere(rows, pid, u) == {r \in rows : r.id = pid /\ r.user_id = u}

\* the row INSERT INTO plugin adds (user_id, plugin_slug and the returned id)
PluginRow(id, u) == [id |-> id, user_id |-> u, plugin_slug |-> plugin_slug]

\* the row INSERT INTO module adds
ModuleRow(id, pid, module) == [id |-> id, plugin_id |-> pid, name |-> module.name]

\* modules_created.append({'id', 'name', 'display_name'})
CreatedEntry(id, module) ==
    [id |-> id, name |-> module.name, display_name |-> module.display_name]

\* modules_to_delete = [{'id': row.id, 'name': row.name} for row in ...]
DeletedEntry(row) == [id |-> row.id, name |-> row.name]

\* _perform_user_installation's success result
InstallResult(pid, created) ==
    [NoResult EXCEPT !.success = TRUE, !.plugin_id = pid, !.modules_created = created]

\* _perform_user_uninstallation's success result
UninstallResult(pid, deleted) ==
    [NoResult EXCEPT !.success = TRUE, !.plugin_id = pid, !.deleted_modules = deleted]

\* _check_existing_plugin's results
ExistsResult(row) == [NoResult EXCEPT !.exists = TRUE, !.plugin_id = row.id]

NotExistsResult(msg) == [NoResult EXCEPT !.error = msg]

\* the steps an install runs after the guard, in order
InstallSteps == << "_create_database_records" >>

(***************************************************************************)
(* Returning to the caller.                                                *)
(***************************************************************************)
\* the call is over: its locals and its manager, when built for the call, are gone
Complete(t, rec, res) ==
    tasks' = [tasks EXCEPT ![t] =
        [IdleTask EXCEPT !.pc = "done", !.op = rec.op, !.user = rec.user,
                         !.own = rec.own, !.faulted = rec.faulted, !.steps = rec.steps,
                         !.pre = rec.pre, !.pred = rec.pred, !.result = res,
                         !.raised = rec.raised,
                         !.rollback_awaited = rec.rollback_awaited]]

\* install_for_user after _perform_user_installation returned
InstallReturn(t, rec, res) ==
    /\ active_users' =
         IF rec.own THEN active_users ELSE ActiveAfterInstall(active_users, rec.user, res)
    /\ Complete(t, [rec EXCEPT !.mgr_active =
                      IF rec.own THEN ActiveAfterInstall(@, rec.user, res) ELSE @], res)

\* uninstall_for_user after _perform_user_uninstallation returned
UninstallReturn(t, rec, res) ==
    /\ active_users' =
         IF rec.own THEN active_users ELSE ActiveAfterUninstall(active_users, rec.user, res)
    /\ Complete(t, [rec EXCEPT !.mgr_active =
                      IF rec.own THEN ActiveAfterUninstall(@, rec.user, res) ELSE @], res)

\* the call of o for user u on the long-lived manager is past its active_users
\* guard and has not returned
InFlight(o, u) ==
    /\ tasks[o].op \in {"install", "uninstall"} /\ tasks[o].user = u /\ ~tasks[o].own
    /\ ~Ready(o)

\* the users for whom a call passed its guard while another was in flight
RacedAfter(t, u, own) ==
    IF ~own /\ \E o \in Tasks \ {t} : InFlight(o, u) THEN raced \cup {u} ELSE raced

(***************************************************************************)
(* install_for_user / install_plugin                                       *)
(***************************************************************************)
InstallStart(t, u, own) ==
    /\ Ready(t)
    /\ LET active == IF own THEN {} ELSE active_users
           rec == [IdleTask EXCEPT !.op = "install", !.user = u, !.own = own,
                                   !.pre = Snapshot(u, active), !.pred = Before(t, u)]
       IN IF AlreadyInstalled(active, u)
          THEN /\ Complete(t, rec, AlreadyInstalledResult)
               /\ UNCHANGED raced
          ELSE /\ tasks' = [tasks EXCEPT ![t] =
                     [rec EXCEPT !.pc = "create_insert_plugin", !.steps = InstallSteps]]
               /\ raced' = RacedAfter(t, u, own)
    /\ UNCHANGED << plugin_table, module_table, next_plugin_id, next_module_id,
                    active_users, fsvars >>

\* result = await db.execute(plugin_insert, plugin_params)
ExecInsertPlugin(t) ==
    /\ tasks[t].pc = "create_insert_plugin"
    /\ \E ok \in BOOLEAN :
         IF ok /\ next_plugin_id <= MaxId
         THEN /\ tasks' = [tasks EXCEPT ![t] = [@ EXCEPT
                    !.tx.ins_plugins = @ \cup {PluginRow(next_plugin_id, tasks[t].user)},
                    !.plugin_id = next_plugin_id,
                    !.idx = 1,
                    !.pc = IF Len(module_data) = 0 THEN "create_commit"
                           ELSE "create_insert_module"]]
              /\ next_plugin_id' = next_plugin_id + 1
         ELSE /\ tasks' = [tasks EXCEPT ![t] = [@ EXCEPT
                    !.err = DbError("INSERT INTO plugin"),
                    !.raised = {DbError("INSERT INTO plugin")}, !.faulted = TRUE,
                    !.pc = "create_rollback"]]
              /\ UNCHANGED next_plugin_id
    /\ UNCHANGED << plugin_table, module_table, next_module_id, active_users,
                    raced, fsvars >>

\* module_result = await db.execute(module_insert, module_params), once per module
ExecInsertModule(t) ==
    /\ tasks[t].pc = "create_insert_module"
    /\ \E ok \in BOOLEAN :
         IF ok /\ next_module_id <= MaxId
         THEN LET module == module_data[tasks[t].idx] IN
              /\ tasks' = [tasks EXCEPT ![t] = [@ EXCEPT
                    !.tx.ins_modules =
                        @ \cup {ModuleRow(next_module_id, tasks[t].plugin_id, module)},
                    !.modules_created = Append(@, CreatedEntry(next_module_id, module)),
                    !.idx = @ + 1,
                    !.pc = IF tasks[t].idx = Len(module_data) THEN "create_commit"
                           ELSE "create_insert_module"]]
              /\ next_module_id' = next_module_id + 1
         ELSE /\ tasks' = [tasks EXCEPT ![t] = [@ EXCEPT
                    !.err = DbError("INSERT INTO module"),
                    !.raised = {DbError("INSERT INTO module")}, !.faulted = TRUE,
                    !.pc = "create_rollback"]]
              /\ UNCHANGED next_module_id
    /\ UNCHANGED << plugin_table, module_table, next_plugin_id, active_users,
                    raced, fsvars >>

\* await db.commit() of _create_database_records, and the return up to the caller
ExecCreateCommit(t) ==
    /\ tasks[t].pc = "create_commit"
    /\ \E ok \in BOOLEAN :
         IF ok
         THEN /\ plugin_table' = plugin_table \cup tasks[t].tx.ins_plugins
              /\ module_table' = module_table \cup tasks[t].tx.ins_modules
              /\ InstallReturn(t, [tasks[t] EXCEPT !.tx = EmptyTx],
                               InstallResult(tasks[t].plugin_id, tasks[t].modules_created))
         ELSE /\ tasks' = [tasks EXCEPT ![t] = [@ EXCEPT
                    !.err = DbError("COMMIT"), !.raised = {DbError("COMMIT")},
                    !.faulted = TRUE, !.pc = "create_rollback"]]
              /\ UNCHANGED << plugin_table, module_table, active_users >>
    /\ UNCHANGED << next_plugin_id, next_module_id, raced, fsvars >>

\* except Exception: await db.rollback(); return {'success': False, 'error': str(e)}
\* (a rollback that raises is caught by _perform_user_installation's except)
ExecCreateRollback(t) ==
    /\ tasks[t].pc = "create_rollback"
    /\ \E ok \in BOOLEAN :
         InstallReturn(t, [tasks[t] EXCEPT
                              !.tx = EmptyTx, !.rollback_awaited = TRUE,
                              !.raised = IF ok THEN @ ELSE @ \cup {DbError("ROLLBACK")}],
                       Failure(IF ok THEN tasks[t].err ELSE DbError("ROLLBACK")))
    /\ UNCHANGED << plugin_table, module_table, next_plugin_id, next_module_id,
                    raced, fsvars >>

(***************************************************************************)
(* uninstall_for_user / delete_plugin and _check_existing_plugin           *)
(***************************************************************************)
UninstallStart(t, u, own) ==
    /\ Ready(t)
    /\ LET active == IF own THEN {} ELSE active_users
           rec == [IdleTask EXCEPT !.op = "uninstall", !.user = u, !.own = own,
                                   !.pre = Snapshot(u, active), !.pred = Before(t, u)]
       IN IF NotInstalled(active, u)
          THEN /\ Complete(t, rec, NotInstalledResult)
               /\ UNCHANGED raced
          ELSE /\ tasks' = [tasks EXCEPT ![t] = [rec EXCEPT !.pc = "check_count"]]
               /\ raced' = RacedAfter(t, u, own)
    /\ UNCHANGED << plugin_table, module_table, next_plugin_id, next_module_id,
                    active_users, fsvars >>

\* get_plugin_status: a new manager's _check_existing_plugin(user_id, db)
LookupStart(t, u) ==
    /\ Ready(t)
    /\ tasks' = [tasks EXCEPT ![t] =
          [IdleTask EXCEPT !.op = "lookup", !.user = u, !.own = TRUE,
                           !.pre = Snapshot(u, {}), !.pred = Before(t, u),
                           !.pc = "check_count"]]
    /\ UNCHANGED << plugin_table, module_table, next_plugin_id, next_module_id,
                    active_users, raced, fsvars >>

\* what follows _check_existing_plugin: the lookup returns it; the uninstall
\* returns 'Plugin not found for user' or goes on to _delete_database_records
CheckReturn(t, rec, chk) ==
    IF rec.op = "lookup"
    THEN Complete(t, rec, chk) /\ UNCHANGED active_users
    ELSE IF ~chk.exists
         THEN UninstallReturn(t, rec, NotFoundResult)
         ELSE /\ tasks' = [tasks EXCEPT ![t] = [rec EXCEPT
                    !.plugin_id = chk.plugin_id, !.pc = "delete_select_modules",
                    !.steps = << "_delete_database_records" >>]]
              /\ UNCHANGED active_users

\* test_result = await db.execute(text("SELECT COUNT(*) as count FROM plugin"))
ExecCheckCount(t) ==
    /\ tasks[t].pc = "check_count"
    /\ \E ok \in BOOLEAN :
         IF ok
         THEN /\ tasks' = [tasks EXCEPT ![t] = [@ EXCEPT !.pc = "check_select"]]
              /\ UNCHANGED active_users
         ELSE CheckReturn(t, [tasks[t] EXCEPT !.faulted = TRUE,
                                              !.raised = {DbError("SELECT COUNT")}],
                          NotExistsResult(DbError("SELECT COUNT")))
    /\ UNCHANGED << plugin_table, module_table, next_plugin_id, next_module_id,
                    raced, fsvars >>

\* result = await db.execute(plugin_query, query_params); result.fetchone()
ExecCheckSelect(t) ==
    /\ tasks[t].pc = "check_select"
    /\ \E ok \in BOOLEAN :
         IF ok
         THEN LET rows == SelectPlugin(ViewPlugins(t), tasks[t].user) IN
              IF rows = {}
              THEN CheckReturn(t, tasks[t], NotExistsResult(NoError))
              ELSE \E row \in rows : CheckReturn(t, tasks[t], ExistsResult(row))
         ELSE CheckReturn(t, [tasks[t] EXCEPT !.faulted = TRUE,
                                              !.raised = {DbError("SELECT FROM plugin")}],
                          NotExistsResult(DbError("SELECT FROM plugin")))
    /\ UNCHANGED << plugin_table, module_table, next_plugin_id, next_module_id,
                    raced, fsvars >>

DeleteRaise_Swallowed(t, stmt) ==
    tasks' = [tasks EXCEPT ![t] = [@ EXCEPT
                 !.err = DbError(stmt), !.raised = {DbError(stmt)},
                 !.faulted = TRUE, !.pc = "delete_commit"]]

\* a statement of _delete_database_records raised: on to the except clause
DeleteRaise(t, stmt) ==
    tasks' = [tasks EXCEPT ![t] = [@ EXCEPT
                 !.err = DbError(stmt), !.raised = {DbError(stmt)},
                 !.faulted = TRUE, !.pc = "delete_rollback"]]

\* modules_result = await db.execute(modules_query, ...); fetchall()
ExecDeleteSelect(t) ==
    /\ tasks[t].pc = "delete_select_modules"
    /\ \E ok \in BOOLEAN :
         IF ok
         THEN \E rows \in RowOrders(SelectModules(ViewModules(t), tasks[t].plugin_id)) :
                tasks' = [tasks EXCEPT ![t] = [@ EXCEPT
                    !.modules_to_delete = [i \in DOMAIN rows |-> DeletedEntry(rows[i])],
                    !.pc = "delete_modules"]]
         ELSE DeleteRaise(t, "SELECT FROM module")
    /\ UNCHANGED << plugin_table, module_table, next_plugin_id, next_module_id,
                    active_users, raced, fsvars >>

\* await db.execute(delete_modules, {'plugin_id': plugin_id})
ExecDeleteModules(t) ==
    /\ tasks[t].pc = "delete_modules"
    /\ \E ok \in BOOLEAN :
         IF ok
         THEN tasks' = [tasks EXCEPT ![t] = [@ EXCEPT
                  !.tx.del_modules = @ \cup
                      {r.id : r \in DeleteModulesWhere(ViewModules(t), tasks[t].plugin_id)},
                  !.pc = "delete_plugin"]]
         ELSE DeleteRaise(t, "DELETE FROM module")
    /\ UNCHANGED << plugin_table, module_table, next_plugin_id, next_module_id,
                    active_users, raced, fsvars >>

\* await db.execute(delete_plugin, {'plugin_id': plugin_id, 'user_id': user_id})
ExecDeletePlugin(t) ==
    /\ tasks[t].pc = "delete_plugin"
    /\ \E ok \in BOOLEAN :
         IF ok
         THEN tasks' = [tasks EXCEPT ![t] = [@ EXCEPT
                  !.tx.del_plugins = @ \cup
                      {r.id : r \in DeletePluginWhere(ViewPlugins(t), tasks[t].plugin_id,
                                                      tasks[t].user)},
                  !.pc = "delete_commit"]]
         ELSE DeleteRaise(t, "DELETE FROM plugin")
    /\ UNCHANGED << plugin_table, module_table, next_plugin_id, next_module_id,
                    active_users, raced, fsvars >>

\* await db.commit() of _delete_database_records, and the return up to the caller
ExecDeleteCommit(t) ==
    /\ tasks[t].pc = "delete_commit"
    /\ \E ok \in BOOLEAN :
         IF ok
         THEN /\ plugin_table' = {r \in plugin_table : r.id \notin tasks[t].tx.del_plugins}
              /\ module_table' = {r \in module_table : r.id \notin tasks[t].tx.del_modules}
              /\ UninstallReturn(t, [tasks[t] EXCEPT !.tx = EmptyTx],
                     UninstallResult(tasks[t].plugin_id, tasks[t].modules_to_delete))
         ELSE /\ DeleteRaise(t, "COMMIT")
              /\ UNCHANGED << plugin_table, module_table, active_users >>
    /\ UNCHANGED << next_plugin_id, next_module_id, raced, fsvars >>

\* except Exception: await db.rollback(); return {'success': False, 'error': str(e)}
\* (a rollback that raises is caught by _perform_user_uninstallation's except)
ExecDeleteRollback(t) ==
    /\ tasks[t].pc = "delete_rollback"
    /\ \E ok \in BOOLEAN :
         UninstallReturn(t, [tasks[t] EXCEPT
                                !.tx = EmptyTx, !.rollback_awaited = TRUE,
                                !.raised = IF ok THEN @ ELSE @ \cup {DbError("ROLLBACK")}],
                         Failure(IF ok THEN tasks[t].err ELSE DbError("ROLLBACK")))
    /\ UNCHANGED << plugin_table, module_table, next_plugin_id, next_module_id,
                    raced, fsvars >>

\* the code of an install between two awaits
InstallStep(t) ==
    \/ ExecInsertPlugin(t)
    \/ ExecInsertModule(t)
    \/ ExecCreateCommit(t)
    \/ ExecCreateRollback(t)

\* the code of a lookup or an uninstall between two awaits
UninstallStep(t) ==
    \/ ExecCheckCount(t)
    \/ ExecCheckSelect(t)
    \/ ExecDeleteSelect(t)
    \/ ExecDeleteModules(t)
    \/ ExecDeletePlugin(t)
    \/ ExecDeleteCommit(t)
    \/ ExecDeleteRollback(t)

Step(t) == InstallStep(t) \/ UninstallStep(t)

(***************************************************************************)
(* _validate_installation_impl.  The target directory holds package.json   *)
(* and dist/remoteEntry.js, each absent, a directory or a file; a file     *)
(* package.json holds bytes json.load decodes to a value or rejects.       *)
(***************************************************************************)
\* the strings looked for in package.json, and one more
Fields == {"name", "version", "main"}

JsonValues ==
    [type : {"object", "array", "string"}, members : SUBSET Fields]
    \cup [type : {"number", "null", "bool", "malformed", "undecodable"}, members : {{}}]

PackageJsonStates ==
    [kind : {"absent", "directory"}, json : {[type |-> "null", members |-> {}]}]
    \cup [kind : {"file"}, json : JsonValues]

BundleStates ==
    [kind : {"absent"}, size : {0}] \cup [kind : {"file", "directory"}, size : 0..MaxSize]

Dirs == [package_json : PackageJsonStates, bundle : BundleStates]

required_files == << "package.json", "dist/remoteEntry.js" >>

required_fields == << "name", "version" >>

\* (plugin_dir / file_path).exists()
Exists(dir, file_path) ==
    IF file_path = "package.json" THEN dir.package_json.kind # "absent"
    ELSE dir.bundle.kind # "absent"

\* with open(package_json_path, 'r') as f: package_data = json.load(f)
\* the exception raised, or "none" and the value
LoadJson(pj) ==
    IF pj.kind = "absent" THEN [exc |-> "FileNotFoundError", value |-> pj.json]
    ELSE IF pj.kind = "directory" THEN [exc |-> "IsADirectoryError", value |-> pj.json]
    ELSE IF pj.json.type = "undecodable"
         THEN [exc |-> "UnicodeDecodeError", value |-> pj.json]
    ELSE IF pj.json.type = "malformed"
         THEN [exc |-> "JSONDecodeError", value |-> pj.json]
    ELSE [exc |-> "none", value |-> pj.json]

\* field in package_data: a key of a dict, an element of a list, a substring of a
\* str; any other value is not iterable
Contains(value, field) ==
    IF value.type \in {"object", "array", "string"}
    THEN IF field \in value.members THEN "yes" ELSE "no"
    ELSE "TypeError"

\* the exceptions except (json.JSONDecodeError, FileNotFoundError) catches
InnerCaught == {"JSONDecodeError", "FileNotFoundError"}

\* the exceptions the outer except Exception catches
OuterCaught ==
    {"JSONDecodeError", "FileNotFoundError", "IsADirectoryError", "UnicodeDecodeError",
     "TypeError"}

Invalid(msg) == [done |-> TRUE, valid |-> FALSE, error |-> msg, raised |-> FALSE]

Valid == [done |-> TRUE, valid |-> TRUE, error |-> NoError, raised |-> FALSE]

\* an exception leaving the inner try: the outer handler returns valid False,
\* an exception it does not catch leaves the method
Outer(exc) ==
    IF exc \in OuterCaught THEN Invalid(exc)
    ELSE [done |-> TRUE, valid |-> FALSE, error |-> exc, raised |-> TRUE]

\* missing_files: the required files that do not exist, in order
MissingFiles(dir) == SelectSeq(required_files, LAMBDA f : ~Exists(dir, f))

\* for field in required_fields: if field not in package_data: return ...
RECURSIVE CheckFields(_, _)
CheckFields(value, i) ==
    IF i > Len(required_fields) THEN "ok"
    ELSE LET c == Contains(value, required_fields[i]) IN
         IF c = "TypeError" THEN "TypeError"
         ELSE IF c = "no" THEN required_fields[i]
         ELSE CheckFields(value, i + 1)

\* if bundle_path.stat().st_size == 0
BundleEmpty(bundle) == bundle.size = 0

ValidateInstallation(dir) ==
    IF MissingFiles(dir) # << >>
    THEN Invalid("Missing required files")
    ELSE LET load == LoadJson(dir.package_json) IN
         IF load.exc \in InnerCaught THEN Invalid("Invalid or missing package.json")
         ELSE IF load.exc # "none" THEN Outer(load.exc)
         ELSE LET f == CheckFields(load.value, 1) IN
              IF f = "TypeError" THEN Outer("TypeError")
              ELSE IF f # "ok" THEN Invalid("package.json missing required field: " \o f)
              ELSE IF BundleEmpty(dir.bundle)
                   THEN Invalid("Bundle file (remoteEntry.js) is empty")
                   ELSE Valid

NotValidated == [done |-> FALSE, valid |-> FALSE, error |-> NoError, raised |-> FALSE]

\* await manager._validate_installation_impl(user_id, plugin_dir)
Validate ==
    /\ ~validation.done
    /\ validation' = ValidateInstallation(plugin_dir)
    /\ UNCHANGED << plugin_dir, health, copyvars, dbvars >>

(***************************************************************************)
(* _get_plugin_health_impl.  Besides package.json and the bundle the       *)
(* target directory holds assets and src, each absent, a file or a         *)
(* directory; a directory src holds a file named *Chat*, *Model* or        *)
(* *History* or none.                                                      *)
(***************************************************************************)
AssetsStates == {"absent", "file", "directory"}

SrcStates ==
    [kind : {"absent", "file"}, chat_files : {FALSE}]
    \cup [kind : {"directory"}, chat_files : BOOLEAN]

HealthDirs ==
    [package_json : PackageJsonStates, bundle : BundleStates,
     assets : AssetsStates, src : SrcStates]

health_info ==
    [bundle_exists |-> FALSE, bundle_size |-> 0, package_json_valid |-> FALSE,
     assets_present |-> FALSE, chat_components_present |-> FALSE]

\* the exceptions except json.JSONDecodeError catches
HealthCaught == {"JSONDecodeError"}

\* if package_json_path.exists(): try: json.load(f) ... except json.JSONDecodeError
\* "yes", "no", or the exception that leaves the inner try
PackageJsonValid(dir) ==
    IF ~Exists(dir, "package.json") THEN "no"
    ELSE LET load == LoadJson(dir.package_json) IN
         IF load.exc = "none" THEN "yes"
         ELSE IF load.exc \in HealthCaught THEN "no"
         ELSE load.exc

\* bundle_exists, bundle_size: if bundle_path.exists(): ... stat().st_size
BundleInfo(dir, info) ==
    IF Exists(dir, "dist/remoteEntry.js")
    THEN [info EXCEPT !.bundle_exists = TRUE, !.bundle_size = dir.bundle.size]
    ELSE info

\* if assets_path.exists() and assets_path.is_dir()
AssetsInfo(dir, info) ==
    IF dir.assets = "directory" THEN [info EXCEPT !.assets_present = TRUE] ELSE info

\* if src_path.exists() and src_path.is_dir(): chat_files = rglob ...
ChatInfo(dir, info) ==
    IF dir.src.kind = "directory" /\ dir.src.chat_files
    THEN [info EXCEPT !.chat_components_present = TRUE]
    ELSE info

IsHealthy_AnySize(info) == info.bundle_exists /\ info.package_json_valid

\* is_healthy
IsHealthy(info) ==
    info.bundle_exists /\ info.bundle_size > 0 /\ info.package_json_valid

GetPluginHealth(dir) ==
    LET pj == PackageJsonValid(dir) IN
    IF pj \notin {"yes", "no"}
    THEN [done |-> TRUE, healthy |-> FALSE, details |-> [error |-> pj]]
    ELSE LET info == ChatInfo(dir, AssetsInfo(dir,
                        [BundleInfo(dir, health_info)
                             EXCEPT !.package_json_valid = (pj = "yes")]))
         IN [done |-> TRUE, healthy |-> IsHealthy(info), details |-> info]

NotChecked == [done |-> FALSE, healthy |-> FALSE, details |-> health_info]

\* await manager._get_plugin_health_impl(user_id, plugin_dir)
GetHealth ==
    /\ ~health.done
    /\ health' = GetPluginHealth(plugin_dir)
    /\ UNCHANGED << plugin_dir, validation, copyvars, dbvars >>

(***************************************************************************)
(* _copy_plugin_files_impl.  A name is its text up to the last dot and the *)
(* rest; a relative path is the sequence of its parts; a tree is a set of  *)
(* entries, each a file or a directory, holding the parents of its entries.*)
(***************************************************************************)
Name(base, suffix) == [base |-> base, suffix |-> suffix]

\* the name as a str
Text(part) == part.base \o part.suffix

\* str(relative_path)
RECURSIVE Str(_)
Str(path) ==
    IF Len(path) = 1 THEN Text(path[1])
    ELSE Text(path[1]) \o "/" \o Str(Tail(path))

File(path) == [path |-> path, is_file |-> TRUE]

Dir(path) == [path |-> path, is_file |-> FALSE]

lifecycle_manager_py == Name("lifecycle_manager", ".py")

\* Path(__file__) relative to source_dir
SelfPath == << lifecycle_manager_py >>

\* the entries a source tree may hold besides the installer file
OptionalEntries ==
    { File(<< Name("package", ".json") >>),
      File(<< Name("mod", ".pyc") >>),
      Dir(<< Name("node_modules", "") >>),
      File(<< Name("node_modules", ""), Name("index", ".js") >>),
      Dir(<< Name("src", "") >>),
      File(<< Name("src", ""), lifecycle_manager_py >>),
      Dir(<< Name("cache", ".pyc") >>),
      File(<< Name("cache", ".pyc"), Name("data", ".js") >>) }

\* the directories above path
Parents(path) == { Dir(SubSeq(path, 1, n)) : n \in 1..(Len(path) - 1) }

IsTree(entries) == \A e \in entries : Parents(e.path) \subseteq entries

\* source_dir holds the running file
SourceTrees ==
    { entries \cup {File(SelfPath)} : entries \in {es \in SUBSET OptionalEntries : IsTree(es)} }

\* a pattern of exclude_patterns: the text, and whether '*' precedes it
Pattern(star, text) == [star |-> star, text |-> text]

exclude_patterns ==
    { Pattern(FALSE, "node_modules"), Pattern(FALSE, "package-lock.json"),
      Pattern(FALSE, ".git"), Pattern(FALSE, ".gitignore"),
      Pattern(FALSE, "__pycache__"), Pattern(TRUE, ".pyc"),
      Pattern(FALSE, ".DS_Store"), Pattern(FALSE, "Thumbs.db") }

\* the pattern as a str
PatternText(pattern) == IF pattern.star THEN "*" \o pattern.text ELSE pattern.text

\* path.name.endswith(suffix)
EndsWith(part, suffix) == part.suffix = suffix

should_copy_AnyPart(path) ==
    \A pattern \in exclude_patterns :
        ~(pattern.star /\ EndsWith(path[Len(path)], pattern.text))

should_copy(path) ==
    /\ \A i \in 1..Len(path) :
           Text(path[i]) \notin { PatternText(pattern) : pattern \in exclude_patterns }
    /\ \A pattern \in exclude_patterns :
           ~(pattern.star /\ EndsWith(path[Len(path)], pattern.text))

IsSelf_Never(item) == FALSE

\* item.name == 'lifecycle_manager.py' and item == Path(__file__)
IsSelf(item) ==
    Text(item.path[Len(item.path)]) = Text(lifecycle_manager_py) /\ item.path = SelfPath

NoCopyResult == [success |-> FALSE, copied_files |-> << >>, error |-> NoError]

CopyError == "copy error"

NotCopied ==
    [pc |-> "idle", update |-> FALSE, todo |-> {}, copied_files |-> << >>,
     created |-> {}, skipped |-> {}, result |-> NoCopyResult]

\* try: source_dir = ...; copied_files = []; for item in source_dir.rglob('*')
CopyStart(update) ==
    /\ copy.pc = "idle"
    /\ copy' = [copy EXCEPT !.pc = "rglob", !.update = update, !.todo = source_tree]
    /\ UNCHANGED << source_tree, target_tree, plugin_dir, validation, health, dbvars >>

\* the stages of copying one file at which an exception may be raised
FileStages == {"mkdir", "unlink", "copy2"}

\* the target after the body of the inner try for item, stopped by an exception
\* at stage ("none": not stopped)
TargetAfter(target, item, update, stage) ==
    IF ~item.is_file
    THEN IF stage = "none" THEN target \cup Parents(item.path) \cup {item} ELSE target
    ELSE IF stage = "mkdir" THEN target
    ELSE IF stage = "unlink" THEN target \cup Parents(item.path)
    ELSE IF stage = "copy2"
         THEN IF update THEN (target \cup Parents(item.path)) \ {item}
              ELSE target \cup Parents(item.path)
    ELSE target \cup Parents(item.path) \cup {item}

\* the stages at which the body for item can stop
StagesOf(target, item, update) ==
    IF ~item.is_file THEN {"none", "mkdir"}
    ELSE IF update /\ item \in target THEN {"none"} \cup FileStages
    ELSE {"none", "mkdir", "copy2"}

\* one iteration of for item in source_dir.rglob('*')
CopyItem ==
    /\ copy.pc = "rglob"
    /\ \E item \in copy.todo :
         IF IsSelf(item) \/ ~should_copy(item.path)
         THEN /\ copy' = [copy EXCEPT !.todo = @ \ {item}]
              /\ UNCHANGED target_tree
         ELSE \E stage \in StagesOf(target_tree, item, copy.update) :
                LET after == TargetAfter(target_tree, item, copy.update, stage) IN
                /\ target_tree' = after
                /\ copy' = [copy EXCEPT
                       !.todo = @ \ {item},
                       !.created = @ \cup (after \ target_tree)
                                     \cup (IF stage = "none" THEN {item} ELSE {}),
                       !.skipped = IF stage = "none" THEN @ ELSE @ \cup {item},
                       !.copied_files =
                           IF stage = "none" /\ item.is_file
                           THEN Append(@, Str(item.path)) ELSE @]
    /\ UNCHANGED << source_tree, plugin_dir, validation, health, dbvars >>

\* after the loop: copy lifecycle_manager.py itself, return
CopySelf ==
    /\ copy.pc = "rglob"
    /\ copy.todo = {}
    /\ \E stage \in StagesOf(target_tree, File(SelfPath), copy.update) :
         LET after == TargetAfter(target_tree, File(SelfPath), copy.update, stage) IN
         /\ target_tree' = after
         /\ IF stage = "none"
            THEN copy' = [copy EXCEPT
                     !.pc = "done",
                     !.created = @ \cup {File(SelfPath)},
                     !.copied_files = Append(@, "lifecycle_manager.py"),
                     !.result = [success |-> TRUE,
                                 copied_files |-> Append(copy.copied_files,
                                                         "lifecycle_manager.py"),
                                 error |-> NoError]]
            ELSE copy' = [copy EXCEPT
                     !.pc = "done",
                     !.result = [NoCopyResult EXCEPT !.error = CopyError]]
    /\ UNCHANGED << source_tree, plugin_dir, validation, health, dbvars >>

(***************************************************************************)
(* The state after construction: the manager has no active user, the       *)
(* tables hold no row of this plugin (they may hold another plugin's).     *)
(***************************************************************************)
\* an empty target directory
InitDir ==
    [package_json |-> [kind |-> "absent", json |-> [type |-> "null", members |-> {}]],
     bundle |-> [kind |-> "absent", size |-> 0]]

InitDb ==
    /\ \E other \in BOOLEAN :
         /\ plugin_table = IF other THEN OtherPluginRows ELSE {}
         /\ module_table = IF other THEN OtherModuleRows ELSE {}
    /\ next_plugin_id = 1
    /\ next_module_id = 1
    /\ active_users = {}
    /\ tasks = [t \in Tasks |-> IdleTask]
    /\ raced = {}

Init ==
    /\ InitDb
    /\ plugin_dir = InitDir
    /\ validation = NotValidated
    /\ health = NotChecked
    /\ source_tree = {File(SelfPath)}
    /\ target_tree = {}
    /\ copy = NotCopied

\* one manager, one request at a time (each call runs to completion)
Next ==
    \/ \E u \in Users : InstallStart(SeqTask, u, FALSE)
    \/ \E u \in Users : UninstallStart(SeqTask, u, FALSE)
    \/ \E u \in Users : LookupStart(SeqTask, u)
    \/ Step(SeqTask)

Spec == Init /\ [][Next]_vars

\* requests served one at a time, through the manager or through the module-level
\* install_plugin / delete_plugin / get_plugin_status, which build a manager per call
NextCompat ==
    \/ \E u \in Users, own \in BOOLEAN : InstallStart(SeqTask, u, own)
    \/ \E u \in Users, own \in BOOLEAN : UninstallStart(SeqTask, u, own)
    \/ \E u \in Users : LookupStart(SeqTask, u)
    \/ Step(SeqTask)

SpecCompat == Init /\ [][NextCompat]_vars

\* one manager, install calls for one user interleaving at their awaits
NextRace ==
    \/ \E t \in Tasks, u \in RaceUsers : InstallStart(t, u, FALSE)
    \/ \E t \in Tasks : InstallStep(t)

SpecRace == Init /\ [][NextRace]_vars

\* the validator on every state of the target directory
InitValidate ==
    /\ plugin_table = {}
    /\ module_table = {}
    /\ next_plugin_id = 1
    /\ next_module_id = 1
    /\ active_users = {}
    /\ tasks = [t \in Tasks |-> IdleTask]
    /\ raced = {}
    /\ plugin_dir \in Dirs
    /\ validation = NotValidated
    /\ health = NotChecked
    /\ source_tree = {File(SelfPath)}
    /\ target_tree = {}
    /\ copy = NotCopied

NextValidate == Validate

SpecValidate == InitValidate /\ [][NextValidate]_vars

\* the health check on every state of the target directory
InitHealth ==
    /\ plugin_table = {}
    /\ module_table = {}
    /\ next_plugin_id = 1
    /\ next_module_id = 1
    /\ active_users = {}
    /\ tasks = [t \in Tasks |-> IdleTask]
    /\ raced = {}
    /\ plugin_dir \in HealthDirs
    /\ validation = NotValidated
    /\ health = NotChecked
    /\ source_tree = {File(SelfPath)}
    /\ target_tree = {}
    /\ copy = NotCopied

NextHealth == GetHealth

SpecHealth == InitHealth /\ [][NextHealth]_vars

\* what an earlier call without failures left in the target
PreviousCopy(tree) ==
    LET files == {e \in tree : e.is_file /\ should_copy(e.path)} IN
    files \cup UNION {Parents(e.path) : e \in files}

\* the copy of every source tree, into an empty target or over an earlier copy
InitCopy ==
    /\ plugin_table = {}
    /\ module_table = {}
    /\ next_plugin_id = 1
    /\ next_module_id = 1
    /\ active_users = {}
    /\ tasks = [t \in Tasks |-> IdleTask]
    /\ raced = {}
    /\ plugin_dir = InitDir
    /\ validation = NotValidated
    /\ health = NotChecked
    /\ source_tree \in SourceTrees
    /\ target_tree \in {{}, PreviousCopy(source_tree)}
    /\ copy = NotCopied

NextCopy ==
    \/ \E update \in BOOLEAN : CopyStart(update)
    \/ CopyItem
    \/ CopySelf

SpecCopy == InitCopy /\ [][NextCopy]_vars

(***************************************************************************)
(* Properties                                                              *)
(***************************************************************************)
Done(t, op) == tasks[t].pc = "done" /\ tasks[t].op = op

\* the Plugin Records of (u, slug) among rows
RecordsOf(rows, u) == {r \in rows : r.user_id = u /\ r.plugin_slug = plugin_slug}

\* the tables are as they were when the call of t began
TablesAsBefore(t) ==
    plugin_table = tasks[t].pre.plugins /\ module_table = tasks[t].pre.modules

\* C1: one manager, one request at a time: an install for a user whose earlier
\* install succeeded and who was not uninstalled since (the user is in
\* active_users when the call begins) returns success False and leaves both
\* tables as they were; and no (user, slug) ever has two Plugin Records.
C1_SecondInstallRejected ==
    /\ \A t \in Tasks :
         (Done(t, "install") /\ tasks[t].pre.active)
            => (~tasks[t].result.success /\ TablesAsBefore(t))
    /\ \A u \in Users : Cardinality(RecordsOf(plugin_table, u)) <= 1

C1_Witness ==
    \E t \in Tasks :
        /\ Done(t, "install") /\ tasks[t].pre.active
        /\ tasks[t].result.error = AlreadyInstalledError
        /\ Cardinality(RecordsOf(plugin_table, tasks[t].user)) = 1

\* C2: a successful install for a user who had no Plugin Record, followed at once
\* by a lookup for that user whose queries execute, makes the lookup return
\* exists True with the plugin_id the install returned.
C2_LookupAfterInstall ==
    \A t \in Tasks :
        (/\ Done(t, "lookup") /\ tasks[t].pred.op = "install" /\ tasks[t].pred.fresh
         /\ ~tasks[t].faulted)
           => (/\ tasks[t].result.exists
               /\ tasks[t].result.plugin_id = tasks[t].pred.plugin_id)

C2_Witness ==
    \E t \in Tasks :
        /\ Done(t, "lookup") /\ tasks[t].pred.op = "install" /\ tasks[t].pred.fresh
        /\ ~tasks[t].faulted /\ tasks[t].result.exists
        /\ \E r \in plugin_table : r.plugin_slug = plugin_slug /\ r.user_id # tasks[t].user

\* C3: a successful uninstall removes exactly the user's one Plugin Record of the
\* slug and the Module Records owned by it, nothing else, and a lookup for the
\* user made right after it returns exists False.
C3_UninstallRemovesExactly ==
    \A t \in Tasks :
        /\ (Done(t, "uninstall") /\ tasks[t].result.success)
              => LET mine == RecordsOf(tasks[t].pre.plugins, tasks[t].user)
                     owned == {m \in tasks[t].pre.modules :
                                  \E r \in mine : m.plugin_id = r.id}
                 IN /\ Cardinality(mine) = 1
                    /\ owned # {}
                    /\ plugin_table = tasks[t].pre.plugins \ mine
                    /\ module_table = tasks[t].pre.modules \ owned
        /\ (Done(t, "lookup") /\ tasks[t].pred.op = "uninstall")
              => ~tasks[t].result.exists

C3_Witness ==
    \E t \in Tasks :
        /\ Done(t, "lookup") /\ tasks[t].pred.op = "uninstall" /\ ~tasks[t].faulted
        /\ \E r \in plugin_table : r.plugin_slug = plugin_slug
        /\ OtherModuleRows \subseteq module_table

\* C4: an uninstall for a user who is not installed (not in active_users and with
\* no Plugin Record when the call begins) returns success False with an error and
\* leaves both tables as they were.
C4_UninstallNeverInstalled ==
    \A t \in Tasks :
        (/\ Done(t, "uninstall") /\ ~tasks[t].pre.active
         /\ RecordsOf(tasks[t].pre.plugins, tasks[t].user) = {})
           => (/\ ~tasks[t].result.success
               /\ tasks[t].result.error # NoError
               /\ TablesAsBefore(t))

C4_Witness ==
    \E t \in Tasks :
        /\ Done(t, "uninstall") /\ ~tasks[t].pre.active
        /\ RecordsOf(tasks[t].pre.plugins, tasks[t].user) = {}
        /\ tasks[t].result.error = NotInstalledError
        /\ \E r \in plugin_table : r.plugin_slug = plugin_slug

\* the identifiers and names of a list of module entries
IdsAndNames(entries) == {[id |-> entries[i].id, name |-> entries[i].name] : i \in DOMAIN entries}

\* C5: an install for a user not installed before, whose statements execute,
\* returns success True with one plugin_id and one modules_created entry per
\* module descriptor (one entry, named BrainDriveChat); the uninstall that follows
\* it, its statements executing, returns success True with the same plugin_id and
\* deleted_modules holding exactly the identifiers and names of modules_created.
C5_InstallThenUninstall ==
    \A t \in Tasks :
        /\ (/\ Done(t, "install") /\ ~tasks[t].pre.active /\ ~tasks[t].faulted
            /\ RecordsOf(tasks[t].pre.plugins, tasks[t].user) = {})
              => LET res == tasks[t].result IN
                 /\ res.success
                 /\ res.plugin_id # NoId
                 /\ Len(res.modules_created) = Len(module_data)
                 /\ \A i \in DOMAIN module_data :
                        res.modules_created[i].name = module_data[i].name
                 /\ Len(res.modules_created) = 1
                 /\ res.modules_created[1].name = "BrainDriveChat"
        /\ (/\ Done(t, "uninstall") /\ tasks[t].pred.op = "install" /\ tasks[t].pred.fresh
            /\ ~tasks[t].faulted)
              => LET res == tasks[t].result IN
                 /\ res.success
                 /\ res.plugin_id = tasks[t].pred.plugin_id
                 /\ Len(res.deleted_modules) = Len(tasks[t].pred.modules_created)
                 /\ IdsAndNames(res.deleted_modules)
                        = IdsAndNames(tasks[t].pred.modules_created)

C5_Witness ==
    \E t \in Tasks :
        /\ Done(t, "uninstall") /\ tasks[t].pred.op = "install" /\ tasks[t].pred.fresh
        /\ ~tasks[t].faulted /\ tasks[t].result.success
        /\ Len(tasks[t].result.deleted_modules) = 1
        /\ OtherModuleRows \subseteq module_table

\* C6: an install request for a user who has a Plugin Record of the slug in the
\* database is rejected and inserts no row, also when served by install_plugin.
C6_InstallConsultsRecords ==
    \A t \in Tasks :
        (Done(t, "install") /\ RecordsOf(tasks[t].pre.plugins, tasks[t].user) # {})
           => (~tasks[t].result.success /\ TablesAsBefore(t))

\* C7: an uninstall request for a user who has a Plugin Record of the slug in the
\* database is not rejected: it runs Record Store Delete and, when no statement
\* raises, reports success; also when served by delete_plugin.
C7_UninstallNotRejected ==
    \A t \in Tasks :
        (/\ Done(t, "uninstall") /\ ~tasks[t].faulted
         /\ RecordsOf(tasks[t].pre.plugins, tasks[t].user) # {})
           => (/\ tasks[t].result.success
               /\ tasks[t].steps = << "_delete_database_records" >>)

\* C8: an install that reports success ran Record Store Insert, then the File
\* Synchronizer, then the Installation Validator, and all three succeeded.
C8_InstallRunsThreeSteps ==
    \A t \in Tasks :
        (Done(t, "install") /\ tasks[t].result.success)
           => (/\ tasks[t].steps = << "_create_database_records",
                                      "_copy_plugin_files_impl",
                                      "_validate_installation_impl" >>
               /\ ValidateInstallation(plugin_dir).valid)

\* C9: with install calls interleaving at their awaits on one manager, two Plugin
\* Records of one (user, slug) arise, and only when a call passed the
\* active_users guard while another call for that user was past it and had not
\* yet returned.
C9_DuplicatesOnlyByRace ==
    \A u \in Users : Cardinality(RecordsOf(plugin_table, u)) > 1 => u \in raced

C9_Witness ==
    \E u \in Users :
        /\ u \in raced
        /\ Cardinality(RecordsOf(plugin_table, u)) = 2
        /\ \A t \in Tasks : Done(t, "install") /\ tasks[t].user = u
                            /\ tasks[t].result.success /\ ~tasks[t].pre.active

\* package.json is a JSON object with the field
HasField(dir, field) ==
    /\ dir.package_json.kind = "file"
    /\ dir.package_json.json.type = "object"
    /\ field \in dir.package_json.json.members

\* C10: the validator never raises; it returns valid False when the bundle is
\* absent, when its size is 0 and when package.json lacks name or version; it
\* returns valid True only when package.json is a JSON object with both fields and
\* the bundle size is greater than 0.
C10_Validator ==
    validation.done =>
        /\ ~validation.raised
        /\ plugin_dir.bundle.kind = "absent" => ~validation.valid
        /\ plugin_dir.bundle.size = 0 => ~validation.valid
        /\ (~HasField(plugin_dir, "name") \/ ~HasField(plugin_dir, "version"))
              => ~validation.valid
        /\ validation.valid =>
              (/\ HasField(plugin_dir, "name") /\ HasField(plugin_dir, "version")
               /\ plugin_dir.bundle.size > 0)

\* the report is the failure report: details holds the error and nothing else
HealthFailed(report) == DOMAIN report.details = {"error"}

\* the report has the field, with this value
Reports(report, field, value) ==
    field \in DOMAIN report.details /\ report.details[field] = value

\* json.load accepts the content of package.json
ParsesAsJson(dir) ==
    dir.package_json.kind = "file"
    /\ dir.package_json.json.type \notin {"malformed", "undecodable"}

\* healthy exactly when the bundle exists, its size is greater than 0 and
\* package.json parses as JSON
HealthyExactly ==
    health.healthy <=>
        /\ plugin_dir.bundle.kind # "absent"
        /\ plugin_dir.bundle.size > 0
        /\ ParsesAsJson(plugin_dir)

\* C11 (as stated): for every state of the target directory the health check
\* reports healthy exactly when dist/remoteEntry.js exists, its size is greater
\* than 0 and package.json parses as JSON, and a missing file yields a false or
\* zero field in the report and not a failure.
C11_Health ==
    health.done =>
        /\ HealthyExactly
        /\ plugin_dir.bundle.kind = "absent" =>
               /\ ~HealthFailed(health)
               /\ Reports(health, "bundle_exists", FALSE)
               /\ Reports(health, "bundle_size", 0)
        /\ plugin_dir.package_json.kind = "absent" =>
               /\ ~HealthFailed(health)
               /\ Reports(health, "package_json_valid", FALSE)

\* the report on a directory in which package.json exists and cannot be opened
\* or decoded as text, and on no other directory, is the failure report
FailsOnlyOnUnreadable ==
    HealthFailed(health) <=>
        \/ plugin_dir.package_json.kind = "directory"
        \/ /\ plugin_dir.package_json.kind = "file"
           /\ plugin_dir.package_json.json.type = "undecodable"

\* C11 (amended): the health check reports healthy exactly when the bundle
\* exists, its size is greater than 0 and package.json parses as JSON; the
\* report is the failure report (healthy False, details holding only the error)
\* exactly when package.json exists and cannot be opened or decoded as text;
\* in every other report a missing file yields a false or zero field; the call
\* changes nothing in the directory.
C11_HealthAmended ==
    /\ [](health.done =>
            /\ HealthyExactly
            /\ FailsOnlyOnUnreadable
            /\ ~HealthFailed(health) =>
                   /\ plugin_dir.bundle.kind = "absent" =>
                          /\ Reports(health, "bundle_exists", FALSE)
                          /\ Reports(health, "bundle_size", 0)
                   /\ plugin_dir.package_json.kind = "absent" =>
                          Reports(health, "package_json_valid", FALSE))
    /\ [][plugin_dir' = plugin_dir]_vars

\* the bundle is missing, package.json parses, and the report says so
C11_Witness ==
    /\ health.done
    /\ plugin_dir.bundle.kind = "absent"
    /\ ParsesAsJson(plugin_dir)
    /\ ~health.healthy
    /\ Reports(health, "bundle_exists", FALSE)
    /\ Reports(health, "package_json_valid", TRUE)

\* the names the exclusion set of the claim holds
ExclusionSet ==
    {"node_modules", "package-lock.json", ".git", ".gitignore", "__pycache__",
     ".DS_Store", "Thumbs.db"}

HasExcludedComponent(path) == \E i \in 1..Len(path) : Text(path[i]) \in ExclusionSet

NameEndsWithPyc(path) == path[Len(path)].suffix = ".pyc"

\* the paths copied_files lists
Listed == { copy.copied_files[i] : i \in 1..Len(copy.copied_files) }

CopySucceeded == copy.pc = "done" /\ copy.result.success

\* the files of the source tree outside the exclusions
OtherFiles ==
    { e \in source_tree :
        e.is_file /\ ~HasExcludedComponent(e.path) /\ ~NameEndsWithPyc(e.path) }

Occurrences(text) ==
    Cardinality({ i \in 1..Len(copy.copied_files) : copy.copied_files[i] = text })

\* C13: for every source tree and every order of the traversal, the loop never
\* lists lifecycle_manager.py, and after a successful copy the file is at the
\* target root and copied_files, which is what the call returns, lists it
\* exactly once.
C13_InstallerOnce ==
    /\ copy.pc = "rglob" => Occurrences("lifecycle_manager.py") = 0
    /\ CopySucceeded =>
           /\ File(SelfPath) \in target_tree
           /\ Occurrences("lifecycle_manager.py") = 1
           /\ copy.result.copied_files = copy.copied_files

\* an update over an earlier copy of a tree holding a second lifecycle_manager.py
\* below src, which the loop copied
C13_Witness ==
    /\ CopySucceeded
    /\ copy.update
    /\ "src/lifecycle_manager.py" \in Listed
    /\ Occurrences("lifecycle_manager.py") = 1
    /\ File(SelfPath) \in target_tree

\* the positions of Insert and Delete before a statement or the commit
CreatePcs == {"create_insert_plugin", "create_insert_module", "create_commit"}

DeletePcs == {"delete_select_modules", "delete_modules", "delete_plugin", "delete_commit"}

RollbackPcs == {"create_rollback", "delete_rollback"}

\* the step of t in which a statement or the commit of Insert or Delete raises:
\* the except clause is next, the commit has not taken effect
RaiseGoesToRollback(t) ==
    tasks[t].pc \in CreatePcs \cup DeletePcs /\ tasks'[t].faulted =>
        /\ tasks'[t].pc = IF tasks[t].pc \in CreatePcs THEN "create_rollback"
                          ELSE "delete_rollback"
        /\ plugin_table' = plugin_table
        /\ module_table' = module_table

\* the rollback of t: the open transaction is gone, the call returns success False
RollbackReturnsFailure(t) ==
    tasks[t].pc \in RollbackPcs =>
        /\ tasks'[t].pc = "done"
        /\ tasks'[t].tx = EmptyTx
        /\ ~tasks'[t].result.success
        /\ tasks'[t].result.error # NoError
        /\ plugin_table' = plugin_table
        /\ module_table' = module_table

\* nothing: no committed row differs while the transaction is open, nor after a
\* call in which a statement, the commit or the rollback raised
NothingOnFailure(t) ==
    /\ tasks[t].pc \in CreatePcs \cup DeletePcs \cup RollbackPcs => TablesAsBefore(t)
    /\ tasks[t].pc = "done" /\ tasks[t].faulted =>
           ~tasks[t].result.success /\ TablesAsBefore(t)

\* all: a successful Insert added the Plugin Record and every Module Record, a
\* successful Delete removed the Plugin Record and every Module Record of it
AllOnSuccess(t) ==
    /\ Done(t, "install") /\ tasks[t].result.success =>
           /\ plugin_table = tasks[t].pre.plugins
                  \cup {PluginRow(tasks[t].result.plugin_id, tasks[t].user)}
           /\ Cardinality(module_table \ tasks[t].pre.modules) = Len(module_data)
           /\ \A m \in module_table \ tasks[t].pre.modules :
                  m.plugin_id = tasks[t].result.plugin_id
    /\ Done(t, "uninstall") /\ tasks[t].result.success =>
           /\ plugin_table = {r \in tasks[t].pre.plugins : r.id # tasks[t].result.plugin_id}
           /\ module_table =
                  {m \in tasks[t].pre.modules : m.plugin_id # tasks[t].result.plugin_id}

\* C14: Insert and Delete are each all-or-nothing: when a statement or the
\* commit raises, the except clause with the rollback is next and the commit
\* takes no effect; the rollback ends the transaction and the operation returns
\* success False; the committed rows are then those of before the operation; an
\* operation that returns success True has committed all of its rows.
C14_AllOrNothing ==
    /\ [](\A t \in Tasks : NothingOnFailure(t) /\ AllOnSuccess(t))
    /\ [][\A t \in Tasks : RaiseGoesToRollback(t) /\ RollbackReturnsFailure(t)]_vars

\* an uninstall whose DELETE FROM plugin raised after the module rows were
\* deleted in the transaction: both rows are still committed
C14_Witness ==
    \E t \in Tasks :
        /\ Done(t, "uninstall")
        /\ tasks[t].faulted
        /\ tasks[t].result.error = DbError("DELETE FROM plugin")
        /\ RecordsOf(plugin_table, tasks[t].user) # {}
        /\ \E r \in RecordsOf(plugin_table, tasks[t].user) :
               \E m \in module_table : m.plugin_id = r.id

\* every Module Record among modules has its Plugin Record among plugins
ParentsExist(plugins, modules) ==
    \A m \in modules : \E r \in plugins : r.id = m.plugin_id

\* C15: in every state, those inside Insert and Delete with their transaction
\* open included, every Module Record has its parent Plugin Record, among the
\* committed rows and among the rows the transaction of each call sees: the
\* plugin row is inserted before its module rows, the module rows are deleted
\* before their plugin row.
C15_ParentExists ==
    /\ ParentsExist(plugin_table, module_table)
    /\ \A t \in Tasks : ParentsExist(ViewPlugins(t), ViewModules(t))

\* inside Delete: the module rows are deleted in the transaction, the plugin row
\* is not yet
C15_Witness ==
    \E t \in Tasks :
        /\ tasks[t].pc = "delete_plugin"
        /\ tasks[t].tx.del_modules # {}
        /\ \E r \in ViewPlugins(t) : r.id = tasks[t].plugin_id
        /\ \A m \in ViewModules(t) : m.plugin_id # tasks[t].plugin_id

\* C16: every install or uninstall in which a statement of the lookup, the
\* insert or the delete (or the commit) raised has awaited the rollback and
\* returned success False with the message of an error raised in the call.
C16_ErrorsReported ==
    \A t \in Tasks :
        tasks[t].pc = "done" /\ tasks[t].op \in {"install", "uninstall"} /\ tasks[t].faulted =>
            /\ tasks[t].rollback_awaited
            /\ ~tasks[t].result.success
            /\ tasks[t].result.error \in tasks[t].raised

\* u is in active_users exactly when a committed Plugin Record of (u, slug) exists
ActiveIffRecord(u) == u \in active_users <=> RecordsOf(plugin_table, u) # {}

\* C17: one manager, one call at a time, the tables starting without a record
\* of the slug: whenever no call is running, so after every completed install
\* or uninstall, successful or failed, each user is in active_users exactly
\* when a committed Plugin Record of (user, slug) exists; a failed install or
\* uninstall leaves the user's membership as it was when the call began: out
\* for an install that got past the guard, in for an uninstall that did.
C17_ActiveMatchesRecords ==
    \A t \in Tasks :
        /\ (\A o \in Tasks : Ready(o)) => \A u \in Users : ActiveIffRecord(u)
        /\ tasks[t].pc = "done" /\ tasks[t].op \in {"install", "uninstall"}
              /\ ~tasks[t].result.success =>
               /\ tasks[t].user \in active_users <=> tasks[t].pre.active
               /\ tasks[t].op = "install" /\ tasks[t].steps # << >> =>
                      tasks[t].user \notin active_users
               /\ tasks[t].op = "uninstall" /\ tasks[t].faulted =>
                      tasks[t].user \in active_users

\* an uninstall failed in the database: the user is still in active_users and
\* the record is still committed, while another user has neither
C17_Witness ==
    \E t \in Tasks :
        /\ Done(t, "uninstall")
        /\ tasks[t].faulted
        /\ ~tasks[t].result.success
        /\ tasks[t].user \in active_users
        /\ RecordsOf(plugin_table, tasks[t].user) # {}
        /\ \E v \in Users \ {tasks[t].user} :
               v \notin active_users /\ RecordsOf(plugin_table, v) = {}

\* the Plugin Records of users other than u, and the Module Records they own
OthersPlugins(rows, u) == {r \in rows : r.user_id # u}

OthersModules(plugins, modules, u) ==
    {m \in modules : \E r \in OthersPlugins(plugins, u) : r.id = m.plugin_id}

\* a step of the install or uninstall of t changes no record of another user
\* and no other user's membership
FrameOfStep(t) ==
    tasks'[t] # tasks[t] /\ tasks'[t].op \in {"install", "uninstall"} =>
        LET U == tasks'[t].user IN
        /\ OthersPlugins(plugin_table', U) = OthersPlugins(plugin_table, U)
        /\ OthersModules(plugin_table', module_table', U)
               = OthersModules(plugin_table, module_table, U)
        /\ active_users' \ {U} = active_users \ {U}

\* C18: every step of install_for_user(U) and uninstall_for_user(U), and so the
\* whole call, leaves unchanged every Plugin Record of a user other than U,
\* every Module Record owned by such a record, and the membership of every
\* other user in active_users.
C18_OtherUsersUntouched ==
    /\ [][\A t \in Tasks : FrameOfStep(t)]_vars
    /\ [](\A t \in Tasks :
            tasks[t].pc = "done" /\ tasks[t].op \in {"install", "uninstall"} =>
                /\ OthersPlugins(plugin_table, tasks[t].user)
                       = OthersPlugins(tasks[t].pre.plugins, tasks[t].user)
                /\ OthersModules(plugin_table, module_table, tasks[t].user)
                       = OthersModules(tasks[t].pre.plugins, tasks[t].pre.modules,
                                       tasks[t].user))

\* u1 was uninstalled while u2 stays installed with its record and module
C18_Witness ==
    \E t \in Tasks :
        /\ Done(t, "uninstall")
        /\ tasks[t].result.success
        /\ tasks[t].user = "u1"
        /\ "u2" \in active_users
        /\ \E r \in RecordsOf(plugin_table, "u2") :
               \E m \in module_table : m.plugin_id = r.id
        /\ RecordsOf(plugin_table, "u1") = {}

====
